---- MODULE Spec2Model ----
(***************************************************************************)
(* Expense tracker: the Expense entity (tracker/models.py), the JSON file  *)
(* store (tracker/storage.py) and the service layer (tracker/service.py).  *)
(*                                                                         *)
(* Python strings are sequences of one-character strings, so that strip,   *)
(* lower, startswith, replace, strptime and strftime are computed on the   *)
(* characters.  A float is a record [k, v]: k = "float" carries the        *)
(* number v, k = "nan" is the IEEE not-a-number (every ordered comparison  *)
(* with it is false).  The other kinds are raw caller values handed to     *)
(* float(): a numeric string, a non-numeric string, None.                  *)
(***************************************************************************)
EXTENDS Integers, Sequences, FiniteSets, TLC

VARIABLES file, last

vars == <<file, last>>

\* ------------------------------------------------------------ bounds

\* The largest number of expenses the store file is let to hold.
MaxStore == 2

\* The largest length of the lists the query engine is run on.
MaxList == 3

\* ------------------------------------------------------------ strings

\* None as an optional string argument: no string has this element.
None == <<"None">>

Empty == <<>>

Digits == {"0", "1", "2", "3", "4", "5", "6", "7", "8", "9"}

DigitVal(c) ==
    CASE c = "0" -> 0 [] c = "1" -> 1 [] c = "2" -> 2 [] c = "3" -> 3
      [] c = "4" -> 4 [] c = "5" -> 5 [] c = "6" -> 6 [] c = "7" -> 7
      [] c = "8" -> 8 [] c = "9" -> 9

DigitChar(n) ==
    CASE n = 0 -> "0" [] n = 1 -> "1" [] n = 2 -> "2" [] n = 3 -> "3"
      [] n = 4 -> "4" [] n = 5 -> "5" [] n = 6 -> "6" [] n = 7 -> "7"
      [] n = 8 -> "8" [] n = 9 -> "9"

\* The code point of a character of the alphabet the inputs are written in.
Ord(c) ==
    CASE c = " " -> 32 [] c = "-" -> 45 [] c = "/" -> 47
      [] c \in Digits -> 48 + DigitVal(c)
      [] c = "B" -> 66 [] c = "D" -> 68 [] c = "E" -> 69 [] c = "F" -> 70
      [] c = "O" -> 79 [] c = "P" -> 80 [] c = "T" -> 84 [] c = "X" -> 88
      [] c = "f" -> 102 [] c = "n" -> 110 [] c = "o" -> 111 [] c = "t" -> 116

\* str.lower on one character.
LowerChar(c) ==
    CASE c = "B" -> "b" [] c = "D" -> "d" [] c = "E" -> "e" [] c = "F" -> "f"
      [] c = "O" -> "o" [] c = "P" -> "p" [] c = "T" -> "t" [] c = "X" -> "x"
      [] OTHER -> c

\* str.lower
Lower(s) == [i \in 1..Len(s) |-> LowerChar(s[i])]

IsSpace(c) == c = " "

RECURSIVE LStrip(_)
LStrip(s) == IF s # <<>> /\ IsSpace(Head(s)) THEN LStrip(Tail(s)) ELSE s

RECURSIVE RStrip(_)
RStrip(s) ==
    IF s # <<>> /\ IsSpace(s[Len(s)]) THEN RStrip(SubSeq(s, 1, Len(s) - 1)) ELSE s

\* str.strip
Strip(s) == RStrip(LStrip(s))

\* str.startswith
StartsWith(s, p) == Len(p) <= Len(s) /\ SubSeq(s, 1, Len(p)) = p

\* s.replace(c, "") for a one-character c
Remove(s, c) == SelectSeq(s, LAMBDA x : x # c)

\* Python's < on str: by code point, a proper prefix first.
RECURSIVE StrLess(_, _)
StrLess(a, b) ==
    IF b = <<>> THEN FALSE
    ELSE IF a = <<>> THEN TRUE
    ELSE IF Head(a) = Head(b) THEN StrLess(Tail(a), Tail(b))
    ELSE Ord(Head(a)) < Ord(Head(b))

\* The truth value of an optional string: None and "" are falsy.
Truthy(s) == s # None /\ s # Empty

\* ------------------------------------------------------------ floats

\* A float is [k, hi, v]: the finite value hi * Unit + v, for the integral
\* doubles below 2^55 that the model uses, or a NaN.  Below Unit the value
\* is v alone (hi = 0), which may be negative in a raw input.
Unit == 2^28

F(n) == [k |-> "float", hi |-> 0, v |-> n]

\* 2^53, the first double whose successor is two away.
Big == [k |-> "float", hi |-> 2^25, v |-> 0]

NaN == [k |-> "nan", hi |-> 0, v |-> 0]

\* Raw values a caller may pass as an amount.
NumStr(n) == [k |-> "numstr", hi |-> 0, v |-> n]

BadStr == [k |-> "str", hi |-> 0, v |-> 0]

NoneAmount == [k |-> "none", hi |-> 0, v |-> 0]

IsFloat(x) == x.k \in {"float", "nan"}

\* Ordered comparisons of floats; any comparison with NaN is false.
FloatLe(a, b) ==
    a.k = "float" /\ b.k = "float" /\ (a.hi < b.hi \/ (a.hi = b.hi /\ a.v <= b.v))

FloatGe(a, b) ==
    a.k = "float" /\ b.k = "float" /\ (a.hi > b.hi \/ (a.hi = b.hi /\ a.v >= b.v))

FloatLt(a, b) ==
    a.k = "float" /\ b.k = "float" /\ (a.hi < b.hi \/ (a.hi = b.hi /\ a.v < b.v))

FloatGt(a, b) ==
    a.k = "float" /\ b.k = "float" /\ (a.hi > b.hi \/ (a.hi = b.hi /\ a.v > b.v))

\* The truth value of an optional amount: None and 0.0 are falsy, NaN is truthy.
AmountTruthy(x) == x.k # "none" /\ ~(x.k = "float" /\ x.hi = 0 /\ x.v = 0)

\* float(x): [ok, value].  A float is itself, a numeric string is parsed,
\* anything else raises TypeError or ValueError.
ToFloat(x) ==
    CASE x.k = "float" -> [ok |-> TRUE, value |-> x]
      [] x.k = "nan" -> [ok |-> TRUE, value |-> x]
      [] x.k = "numstr" -> [ok |-> TRUE, value |-> F(x.v)]
      [] OTHER -> [ok |-> FALSE, value |-> x]

\* The float of the non-negative integer hi * Unit + v, carried to v < Unit.
Carried(hi, v) == [k |-> "float", hi |-> hi + (v \div Unit), v |-> v % Unit]

\* The spacing of the doubles around hi * Unit: 1 below 2^53, 2 below 2^54,
\* 4 below 2^55.
Ulp(hi) == IF hi < 2^25 THEN 1 ELSE IF hi < 2^26 THEN 2 ELSE 4

\* Round to nearest, ties to even: the integer x (v = x.v, with remainder
\* r = v % ulp) goes to the nearer multiple of ulp, and half way to the one
\* whose quotient is even.
RoundTo(hi, v, ulp, r) ==
    IF 2 * r < ulp \/ (2 * r = ulp /\ ((v - r) \div ulp) % 2 = 0)
    THEN Carried(hi, v - r)
    ELSE Carried(hi, v - r + ulp)

RoundNearestEven(x) == RoundTo(x.hi, x.v, Ulp(x.hi), x.v % Ulp(x.hi))

\* a + b on non-negative floats: the exact sum, rounded to a double; a NaN
\* operand gives NaN.
FloatAdd(a, b) ==
    IF a.k = "nan" \/ b.k = "nan" THEN NaN
    ELSE RoundNearestEven(Carried(a.hi + b.hi, a.v + b.v))

\* ------------------------------------------------------------ dates

\* The parts of s between the hyphens.
RECURSIVE SplitHyphen(_)
SplitHyphen(s) ==
    IF \A i \in 1..Len(s) : s[i] # "-" THEN <<s>>
    ELSE LET i == CHOOSE j \in 1..Len(s) :
                      s[j] = "-" /\ \A h \in 1..(j - 1) : s[h] # "-"
         IN <<SubSeq(s, 1, i - 1)>> \o SplitHyphen(SubSeq(s, i + 1, Len(s)))

RECURSIVE Number(_)
Number(s) == IF s = <<>> THEN 0 ELSE 10 * Number(SubSeq(s, 1, Len(s) - 1)) + DigitVal(s[Len(s)])

AllDigits(s) == \A i \in 1..Len(s) : s[i] \in Digits

\* %Y: exactly four digits.
MatchYear(s) == Len(s) = 4 /\ AllDigits(s)

\* %m: 1[0-2] | 0[1-9] | [1-9]
MatchMonth(s) ==
    /\ Len(s) \in {1, 2}
    /\ AllDigits(s)
    /\ Number(s) \in 1..12

\* %d: 3[01] | [12]\d | 0[1-9] | [1-9] | " "[1-9]
MatchDay(s) ==
    \/ Len(s) \in {1, 2} /\ AllDigits(s) /\ Number(s) \in 1..31
    \/ Len(s) = 2 /\ s[1] = " " /\ s[2] \in Digits /\ Number(<<s[2]>>) \in 1..9

IsLeap(y) == (y % 4 = 0 /\ y % 100 # 0) \/ y % 400 = 0

DaysInMonth(y, m) ==
    IF m = 2 THEN (IF IsLeap(y) THEN 29 ELSE 28)
    ELSE IF m \in {4, 6, 9, 11} THEN 30 ELSE 31

\* datetime.strptime(s, "%Y-%m-%d") returns rather than raising ValueError.
StrptimeOk(s) ==
    LET p == SplitHyphen(s) IN
    /\ Len(p) = 3
    /\ MatchYear(p[1])
    /\ MatchMonth(p[2])
    /\ MatchDay(p[3])
    /\ Number(p[1]) >= 1
    /\ Number(Strip(p[3])) <= DaysInMonth(Number(p[1]), Number(p[2]))

\* An instant of the wall clock, as datetime.now() reports it.
Pad2(n) == <<DigitChar(n \div 10), DigitChar(n % 10)>>

Pad6(n) ==
    <<DigitChar((n \div 100000) % 10), DigitChar((n \div 10000) % 10),
      DigitChar((n \div 1000) % 10), DigitChar((n \div 100) % 10),
      DigitChar((n \div 10) % 10), DigitChar(n % 10)>>

\* now.strftime("%H%M%S%f")
Strftime(now) ==
    Pad2(now.hour) \o Pad2(now.minute) \o Pad2(now.second) \o Pad6(now.microsecond)

\* ------------------------------------------------------------ inputs

D1 == <<"2", "0", "2", "4", "-", "0", "3", "-", "0", "5">>

D2 == <<"2", "0", "2", "4", "-", "0", "4", "-", "0", "1">>

\* 30 February: well formed, and no day of the calendar.
BadDay == <<"2", "0", "2", "4", "-", "0", "2", "-", "3", "0">>

Malformed == <<"2", "0", "2", "4", "/", "0", "3", "/", "0", "5">>

Fo == <<"F", "o">>

SpacedT == <<" ", "T", " ">>

Blank == <<" ", " ">>

NoteN == <<"n">>

BDT == <<"B", "D", "T">>

USD == <<"U", "S", "D">>

AddReq(date, category, amount, note, currency) ==
    [date |-> date, category |-> category, amount |-> amount, note |-> note,
     currency |-> currency]

\* The add commands that construct an expense.
AddFood == AddReq(D1, Fo, F(1), Empty, BDT)

AddTransport == AddReq(D2, SpacedT, NumStr(2), NoteN, USD)

AddNaN == AddReq(D1, Fo, NaN, Empty, BDT)

\* An add of 2^53, as --amount 9007199254740992 gives.
AddBig == AddReq(D2, SpacedT, Big, Empty, BDT)

ValidAdds == {AddFood, AddTransport, AddNaN}

\* The add commands with one field the constructor rejects.
InvalidAdds ==
    {AddReq(BadDay, Fo, F(1), Empty, BDT),
     AddReq(Malformed, Fo, F(1), Empty, BDT),
     AddReq(D1, Blank, F(1), Empty, BDT),
     AddReq(D1, Empty, F(1), Empty, BDT),
     AddReq(D1, Fo, F(0), Empty, BDT),
     AddReq(D1, Fo, F(-1), Empty, BDT),
     AddReq(D1, Fo, BadStr, Empty, BDT),
     AddReq(D1, Fo, NoneAmount, Empty, BDT)}

AddRequests == ValidAdds \cup InvalidAdds

EditReq(amount, note, category, date) ==
    [amount |-> amount, note |-> note, category |-> category, date |-> date]

\* The edit commands whose merged record the constructor accepts.
ValidEdits ==
    {EditReq(NoneAmount, NoteN, None, None),
     EditReq(NoneAmount, Empty, None, None),
     EditReq(NoneAmount, None, None, D1),
     EditReq(F(0), None, None, None),
     EditReq(F(0), NoteN, None, None),
     EditReq(NoneAmount, None, Empty, None)}

\* The edit commands whose merged record the constructor rejects.
InvalidEdits ==
    {EditReq(F(-1), None, None, None),
     EditReq(BadStr, NoteN, None, None),
     EditReq(NoneAmount, NoteN, Blank, None),
     EditReq(NoneAmount, None, None, BadDay),
     EditReq(NoneAmount, NoteN, None, Malformed)}

EditRequests == ValidEdits \cup InvalidEdits

\* Three readings of the clock, the first two within one second.
Morning == [hour |-> 9, minute |-> 5, second |-> 7, microsecond |-> 120]

SameSecond == [hour |-> 9, minute |-> 5, second |-> 7, microsecond |-> 999999]

Night == [hour |-> 23, minute |-> 59, second |-> 59, microsecond |-> 0]

Nows == {Morning, SameSecond, Night}

\* The clock of a call that constructs no new expense: the reading is used
\* only by _generate_id, for a stored record whose id is empty.
LoadNows == {n \in Nows : n.microsecond = 0}

\* An id no expense has.
MissingId == <<"n", "o", "n", "e">>

\* The filters, sort fields and limits of the list commands.  A limit is
\* <<>> for None and <<n>> for the integer n; a sort field is "None" for None.
March == <<"2", "0", "2", "4", "-", "0", "3">>

Months == {None, March}

FilterCategories == {None, <<"F", "O">>, <<"t">>, Empty}

Mins == {NoneAmount, F(2)}

Maxs == {NoneAmount, F(1)}

SortFields == {"None", "date", "amount", "category", "id"}

Limits == {<<>>, <<0>>, <<1>>, <<2>>}

\* The strings that reach the validators: the callers' and the stored ones.
DateStrings == {r.date : r \in AddRequests} \cup ({r.date : r \in EditRequests} \ {None})

CategoryStrings ==
    LET raw == {r.category : r \in AddRequests} \cup {r.category : r \in EditRequests}
    IN  raw \cup {Lower(Strip(c)) : c \in raw}

\* ------------------------------------------------------------ Expense

NoExpense ==
    [id |-> Empty, date |-> Empty, category |-> Empty, amount |-> NoneAmount,
     note |-> Empty, currency |-> Empty]

Raise(msg) == [ok |-> FALSE, error |-> msg, value |-> NoExpense]

\* strptime, computed once for each date string of the model.
StrptimeMemo == [s \in DateStrings |-> StrptimeOk(s)]

\* Expense._validate_date
validate_date(date) ==
    IF (IF date \in DateStrings THEN StrptimeMemo[date] ELSE StrptimeOk(date))
    THEN [ok |-> TRUE, value |-> date]
    ELSE [ok |-> FALSE, value |-> date]

\* The category check on the characters: empty or all blank raises, and
\* the value is category.strip().lower().
check_category(category) ==
    IF ~Truthy(category) \/ ~Truthy(Strip(category))
    THEN [ok |-> FALSE, value |-> category]
    ELSE [ok |-> TRUE, value |-> Lower(Strip(category))]

\* The category check, computed once for each category string of the model.
CategoryMemo == [s \in CategoryStrings |-> check_category(s)]

\* Expense._validate_category
validate_category(category) ==
    IF category \in CategoryStrings THEN CategoryMemo[category]
    ELSE check_category(category)

\* Expense._validate_amount: "number" when float() raises, "positive" when
\* the float is <= 0, and the float otherwise.
validate_amount(amount) ==
    LET f == ToFloat(amount) IN
    IF ~f.ok THEN [ok |-> FALSE, why |-> "number", value |-> amount]
    ELSE IF FloatLe(f.value, F(0)) THEN [ok |-> FALSE, why |-> "positive", value |-> amount]
    ELSE [ok |-> TRUE, why |-> "", value |-> f.value]

\* Expense._generate_id
generate_id(date, now) ==
    <<"E", "X", "P", "-">> \o Remove(date, "-") \o <<"-">> \o SubSeq(Strftime(now), 1, 6)

\* Expense.__init__ once the three validators have answered: the first
\* failure raises, in the order date, category, amount; then the id.
construct(d, c, a, note, currency, expense_id, now) ==
    IF ~d.ok THEN Raise("date must be YYYY-MM-DD")
    ELSE IF ~c.ok THEN Raise("category cannot be empty")
    ELSE IF ~a.ok
         THEN (IF a.why = "positive" THEN Raise("amount must be > 0")
               ELSE Raise("amount must be a valid number"))
    ELSE [ok |-> TRUE, error |-> "",
          value |-> [id |-> IF Truthy(expense_id) THEN expense_id
                            ELSE generate_id(d.value, now),
                     date |-> d.value, category |-> c.value, amount |-> a.value,
                     note |-> note, currency |-> currency]]

\* Expense.__init__
Expense(date, category, amount, note, currency, expense_id, now) ==
    construct(validate_date(date), validate_category(category), validate_amount(amount),
              note, currency, expense_id, now)

\* Expense.to_dict
to_dict(e) ==
    [id |-> e.id, date |-> e.date, category |-> e.category, amount |-> e.amount,
     note |-> e.note, currency |-> e.currency]

\* A from_dict that does not pass the stored id on.
from_dict_new_id(data, now) ==
    Expense(data.date, data.category, data.amount, data.note, data.currency, None, now)

\* Expense.from_dict: the constructor again, with the stored id.
from_dict(data, now) ==
    Expense(data.date, data.category, data.amount, data.note, data.currency, data.id, now)

\* ------------------------------------------------------------ storage

\* ExpenseStorage.VERSION
VERSION == 1

\* The store file: absent, a versioned object, or a legacy bare array.
AbsentFile == [shape |-> "absent", version |-> 0, expenses |-> <<>>]

LegacyFile(dicts) == [shape |-> "array", version |-> 0, expenses |-> dicts]

\* ExpenseStorage._write_data: the file becomes the document.
write_data(version, dicts) == [shape |-> "object", version |-> version, expenses |-> dicts]

\* ExpenseStorage._ensure_file_exists: [file, writes]
ensure_file_exists(f) ==
    IF f.shape = "absent"
    THEN [file |-> write_data(VERSION, <<>>), writes |-> 1]
    ELSE [file |-> f, writes |-> 0]

\* [Expense.from_dict(item) for item in expense_list]: the constructor's
\* results, in order.
RECURSIVE FromDicts(_, _)
FromDicts(dicts, now) ==
    IF dicts = <<>> THEN <<>>
    ELSE <<from_dict(Head(dicts), now)>> \o FromDicts(Tail(dicts), now)

\* [expense.to_dict() for expense in expenses]
RECURSIVE ToDicts(_)
ToDicts(expenses) ==
    IF expenses = <<>> THEN <<>>
    ELSE <<to_dict(Head(expenses))>> \o ToDicts(Tail(expenses))

RECURSIVE Values(_)
Values(results) ==
    IF results = <<>> THEN <<>> ELSE <<Head(results).value>> \o Values(Tail(results))

\* The result of a load: [ok, file, expenses, loads, writes]
Loaded(ok, f, expenses, writes) ==
    [ok |-> ok, file |-> f, expenses |-> expenses, loads |-> 1, writes |-> writes]

\* load_expenses after _ensure_file_exists, given the constructed records:
\* one record that fails to construct fails the load.
load_objects(en, objs) ==
    IF \A i \in 1..Len(objs) : objs[i].ok
    THEN Loaded(TRUE, en.file, Values(objs), en.writes)
    ELSE Loaded(FALSE, en.file, <<>>, en.writes)

\* A file that holds the beginning of a document only: what open(.., 'w')
\* and an unfinished json.dump leave.
PartialFile(dicts) == [shape |-> "partial", version |-> 0, expenses |-> dicts]

\* load_expenses after _ensure_file_exists: either shape of document gives
\* its list, and json.load raises on an unfinished one.
load_existing(en, now) ==
    IF en.file.shape = "partial" THEN Loaded(FALSE, en.file, <<>>, en.writes)
    ELSE load_objects(en, FromDicts(en.file.expenses, now))

\* ExpenseStorage.load_expenses
load_expenses(f, now) == load_existing(ensure_file_exists(f), now)

\* A write of the bare list, with no version around it.
write_expenses_bare(expenses) == LegacyFile(ToDicts(expenses))

\* ExpenseStorage._write_expenses
write_expenses(expenses) == write_data(VERSION, ToDicts(expenses))

\* The result of a store operation: [ok, result, file, loads, writes]
Stepped(ok, result, f, loads, writes) ==
    [ok |-> ok, result |-> result, file |-> f, loads |-> loads, writes |-> writes]

\* A save that puts the new expense first.
save_loaded_front(ld, expense) ==
    IF ~ld.ok THEN Stepped(FALSE, FALSE, ld.file, ld.loads, ld.writes)
    ELSE Stepped(TRUE, TRUE, write_expenses(<<expense>> \o ld.expenses),
                 ld.loads, ld.writes + 1)

\* save_expense after its load: append and write back.
save_loaded(ld, expense) ==
    IF ~ld.ok THEN Stepped(FALSE, FALSE, ld.file, ld.loads, ld.writes)
    ELSE Stepped(TRUE, TRUE, write_expenses(Append(ld.expenses, expense)),
                 ld.loads, ld.writes + 1)

\* ExpenseStorage.save_expense
save_expense(f, expense, now) == save_loaded(load_expenses(f, now), expense)

\* A delete that writes the list back whether or not it shrank.
delete_kept_always_writes(ld, kept) ==
    IF ~ld.ok THEN Stepped(FALSE, FALSE, ld.file, ld.loads, ld.writes)
    ELSE Stepped(TRUE, Len(kept) # Len(ld.expenses), write_expenses(kept),
                 ld.loads, ld.writes + 1)

\* delete_expense after its load and its filter: write only if the list shrank.
delete_kept(ld, kept) ==
    IF ~ld.ok THEN Stepped(FALSE, FALSE, ld.file, ld.loads, ld.writes)
    ELSE IF Len(kept) = Len(ld.expenses)
    THEN Stepped(TRUE, FALSE, ld.file, ld.loads, ld.writes)
    ELSE Stepped(TRUE, TRUE, write_expenses(kept), ld.loads, ld.writes + 1)

\* delete_expense after its load: drop every expense with the id.
delete_loaded(ld, expense_id) ==
    delete_kept(ld, SelectSeq(ld.expenses, LAMBDA e : e.id # expense_id))

\* ExpenseStorage.delete_expense
delete_expense(f, expense_id, now) == delete_loaded(load_expenses(f, now), expense_id)

\* The index of the first expense with the id, 0 when there is none.
FirstIndex(expenses, expense_id) ==
    IF \E i \in 1..Len(expenses) : expenses[i].id = expense_id
    THEN CHOOSE i \in 1..Len(expenses) :
             /\ expenses[i].id = expense_id
             /\ \A j \in 1..(i - 1) : expenses[j].id # expense_id
    ELSE 0

\* storage update_expense after its load and its search: replace at the
\* first match and write, or report that there is none.
replace_at(ld, i, updated_expense) ==
    IF ~ld.ok THEN Stepped(FALSE, FALSE, ld.file, ld.loads, ld.writes)
    ELSE IF i = 0 THEN Stepped(TRUE, FALSE, ld.file, ld.loads, ld.writes)
    ELSE Stepped(TRUE, TRUE, write_expenses([ld.expenses EXCEPT ![i] = updated_expense]),
                 ld.loads, ld.writes + 1)

update_loaded(ld, expense_id, updated_expense) ==
    replace_at(ld, FirstIndex(ld.expenses, expense_id), updated_expense)

\* ExpenseStorage.update_expense
storage_update_expense(f, expense_id, updated_expense, now) ==
    update_loaded(load_expenses(f, now), expense_id, updated_expense)

\* get_expense_by_id after its load and its search:
\* [ok, found, value, file, loads, writes]
found_at(ld, i) ==
    [ok |-> ld.ok, found |-> ld.ok /\ i # 0,
     value |-> IF ld.ok /\ i # 0 THEN ld.expenses[i] ELSE NoExpense,
     file |-> ld.file, loads |-> ld.loads, writes |-> ld.writes]

get_loaded(ld, expense_id) == found_at(ld, FirstIndex(ld.expenses, expense_id))

\* ExpenseStorage.get_expense_by_id
get_expense_by_id(f, expense_id, now) == get_loaded(load_expenses(f, now), expense_id)

\* ------------------------------------------------------------ service

\* What a call returned and what it did to the file: result is the returned
\* value ("True", "False", "Expense", "list") or the exception raised, value
\* the returned expenses, loads and writes the full reads and writes of the file.
Outcome(op, result, value, loads, writes) ==
    [op |-> op, result |-> result, value |-> value, loads |-> loads, writes |-> writes]

\* The file and the outcome a call leaves.
Leaves(f, outcome) == [file |-> f, last |-> outcome]

\* add_expense once the expense is saved (or the save has failed).
add_saved(expense, sv) ==
    IF sv.ok THEN Leaves(sv.file, Outcome("add", "Expense", <<expense>>, sv.loads, sv.writes))
    ELSE Leaves(sv.file, Outcome("add", "Exception", <<>>, sv.loads, sv.writes))

\* handle_add once the constructor has answered: its ValueError reaches the
\* caller before the store is touched; else ExpenseService.add_expense.
add_constructed(f, x, now) ==
    IF ~x.ok THEN Leaves(f, Outcome("add", "ValueError", <<>>, 0, 0))
    ELSE add_saved(x.value, save_expense(f, x.value, now))

\* handle_add and ExpenseService.add_expense
add_expense(f, date, category, amount, note, currency, now) ==
    add_constructed(f, Expense(date, category, amount, note, currency, None, now), now)

\* ExpenseService.delete_expense once the store has answered.
delete_done(r) ==
    Leaves(r.file,
           Outcome("delete",
                   IF ~r.ok THEN "Exception" ELSE IF r.result THEN "True" ELSE "False",
                   <<>>, r.loads, r.writes))

\* ExpenseService.delete_expense
service_delete_expense(f, expense_id, now) == delete_done(delete_expense(f, expense_id, now))

\* update_expense once the store has replaced the record.
update_stored(g, u) ==
    Leaves(u.file,
           Outcome("update",
                   IF ~u.ok THEN "Exception" ELSE IF u.result THEN "True" ELSE "False",
                   <<>>, g.loads + u.loads, g.writes + u.writes))

\* An update that stores the merged record before looking at its validation.
update_merged_unchecked(g, x, expense_id, now) ==
    IF ~x.ok
    THEN Leaves(storage_update_expense(g.file, expense_id, x.value, now).file,
                Outcome("update", "ValueError", <<>>, g.loads, g.writes))
    ELSE update_stored(g, storage_update_expense(g.file, expense_id, x.value, now))

\* update_expense once the merged record is constructed: its ValueError
\* reaches the caller before any write.
update_merged(g, x, expense_id, now) ==
    IF ~x.ok THEN Leaves(g.file, Outcome("update", "ValueError", <<>>, g.loads, g.writes))
    ELSE update_stored(g, storage_update_expense(g.file, expense_id, x.value, now))

\* A merge that takes every amount that is not None.
merge_any_amount(existing, amount, note, category, date, now) ==
    Expense(IF Truthy(date) THEN date ELSE existing.date,
            IF Truthy(category) THEN category ELSE existing.category,
            IF amount # NoneAmount THEN amount ELSE existing.amount,
            IF note # None THEN note ELSE existing.note,
            existing.currency, existing.id, now)

\* A merge that leaves the currency to the constructor's default.
merge_default_currency(existing, amount, note, category, date, now) ==
    Expense(IF Truthy(date) THEN date ELSE existing.date,
            IF Truthy(category) THEN category ELSE existing.category,
            IF AmountTruthy(amount) THEN amount ELSE existing.amount,
            IF note # None THEN note ELSE existing.note,
            BDT, existing.id, now)

\* The merged record: a falsy date, category or amount, and a note that is
\* None, keep the existing value.
merge(existing, amount, note, category, date, now) ==
    Expense(IF Truthy(date) THEN date ELSE existing.date,
            IF Truthy(category) THEN category ELSE existing.category,
            IF AmountTruthy(amount) THEN amount ELSE existing.amount,
            IF note # None THEN note ELSE existing.note,
            existing.currency, existing.id, now)

\* update_expense once get_expense_by_id has answered.
update_found(g, expense_id, amount, note, category, date, now) ==
    IF ~g.ok THEN Leaves(g.file, Outcome("update", "Exception", <<>>, g.loads, g.writes))
    ELSE IF ~g.found THEN Leaves(g.file, Outcome("update", "False", <<>>, g.loads, g.writes))
    ELSE update_merged(g, merge(g.value, amount, note, category, date, now), expense_id, now)

\* ExpenseService.update_expense: find, merge, validate, replace.
update_expense(f, expense_id, amount, note, category, date, now) ==
    update_found(get_expense_by_id(f, expense_id, now),
                 expense_id, amount, note, category, date, now)

\* ------------------------------------------------------------ query engine

\* ExpenseService._apply_filters: each filter that is supplied (truthy for
\* the strings, not None for the amounts) keeps the expenses that pass it.
apply_filters(expenses, month, from_date, to_date, category, min_amount, max_amount) ==
    SelectSeq(expenses, LAMBDA e :
        /\ Truthy(month) => StartsWith(e.date, month)
        /\ Truthy(from_date) => ~StrLess(e.date, from_date)
        /\ Truthy(to_date) => ~StrLess(to_date, e.date)
        /\ Truthy(category) => Lower(e.category) = Lower(category)
        /\ min_amount # NoneAmount => FloatGe(e.amount, min_amount)
        /\ max_amount # NoneAmount => FloatLe(e.amount, max_amount))

\* sort_keys: the fields list can be sorted by.
sort_keys == {"date", "amount", "category"}

\* key(a) < key(b) for the key function of the field.
KeyLess(sort_by, a, b) ==
    CASE sort_by = "date" -> StrLess(a.date, b.date)
      [] sort_by = "amount" -> FloatLt(a.amount, b.amount)
      [] sort_by = "category" -> StrLess(a.category, b.category)

Reverse(xs) == [i \in 1..Len(xs) |-> xs[Len(xs) + 1 - i]]

Max(S) == CHOOSE m \in S : \A x \in S : x <= m

\* list.sort's first run: [n, desc], the longest prefix that is strictly
\* descending, or else the longest one that never descends.
CountRun(sort_by, xs) ==
    IF Len(xs) < 2 THEN [n |-> Len(xs), desc |-> FALSE]
    ELSE IF KeyLess(sort_by, xs[2], xs[1])
    THEN [n |-> Max({m \in 2..Len(xs) :
                        \A i \in 2..m : KeyLess(sort_by, xs[i], xs[i - 1])}),
          desc |-> TRUE]
    ELSE [n |-> Max({m \in 2..Len(xs) :
                        \A i \in 2..m : ~KeyLess(sort_by, xs[i], xs[i - 1])}),
          desc |-> FALSE]

\* list.sort's binary search for the place of pivot in run[l+1..r].
RECURSIVE BinaryPos(_, _, _, _, _)
BinaryPos(sort_by, run, pivot, l, r) ==
    IF l >= r THEN l
    ELSE IF KeyLess(sort_by, pivot, run[l + ((r - l) \div 2) + 1])
    THEN BinaryPos(sort_by, run, pivot, l, l + ((r - l) \div 2))
    ELSE BinaryPos(sort_by, run, pivot, l + ((r - l) \div 2) + 1, r)

InsertAt(run, pos, x) == SubSeq(run, 1, pos) \o <<x>> \o SubSeq(run, pos + 1, Len(run))

\* list.sort's binary insertion of the elements after the first run.
RECURSIVE BinarySort(_, _, _)
BinarySort(sort_by, run, rest) ==
    IF rest = <<>> THEN run
    ELSE BinarySort(sort_by,
                    InsertAt(run, BinaryPos(sort_by, run, Head(rest), 0, Len(run)), Head(rest)),
                    Tail(rest))

SortRun(sort_by, xs, cr) ==
    BinarySort(sort_by,
               IF cr.desc THEN Reverse(SubSeq(xs, 1, cr.n)) ELSE SubSeq(xs, 1, cr.n),
               SubSeq(xs, cr.n + 1, Len(xs)))

\* list.sort on a list shorter than the merge threshold.
ListSort(sort_by, xs) == SortRun(sort_by, xs, CountRun(sort_by, xs))

\* sorted(xs, key=..., reverse=...): reverse sorts the reversed list and
\* reverses the result.
sorted(xs, sort_by, reverse) ==
    IF reverse THEN Reverse(ListSort(sort_by, Reverse(xs))) ELSE ListSort(sort_by, xs)

\* ExpenseService._sort_expenses
sort_expenses(expenses, sort_by, descending) ==
    IF sort_by \notin sort_keys THEN expenses ELSE sorted(expenses, sort_by, descending)

\* expenses[:limit]
Slice(expenses, limit) ==
    IF limit >= 0 THEN SubSeq(expenses, 1, IF limit < Len(expenses) THEN limit ELSE Len(expenses))
    ELSE SubSeq(expenses, 1, IF Len(expenses) + limit > 0 THEN Len(expenses) + limit ELSE 0)

\* list_expenses after the filters: sort if a field is given, truncate if
\* the limit is truthy.
sort_and_limit(filtered, sort_by, descending, limit) ==
    IF limit # <<>> /\ limit[1] # 0
    THEN Slice(IF sort_by \notin {"None", ""} THEN sort_expenses(filtered, sort_by, descending)
               ELSE filtered, limit[1])
    ELSE IF sort_by \notin {"None", ""} THEN sort_expenses(filtered, sort_by, descending)
    ELSE filtered

\* list_expenses on the loaded list: filter, sort, limit.
list_of(expenses, month, category, min_amount, max_amount, sort_by, descending, limit) ==
    sort_and_limit(apply_filters(expenses, month, None, None, category, min_amount, max_amount),
                   sort_by, descending, limit)

\* A list that saves the view it returns.
list_loaded_saves_view(ld, month, category, min_amount, max_amount, sort_by, descending, limit) ==
    IF ~ld.ok THEN Leaves(ld.file, Outcome("list", "Exception", <<>>, ld.loads, ld.writes))
    ELSE Leaves(write_expenses(list_of(ld.expenses, month, category, min_amount,
                                       max_amount, sort_by, descending, limit)),
                Outcome("list", "list",
                        list_of(ld.expenses, month, category, min_amount, max_amount,
                                sort_by, descending, limit),
                        ld.loads, ld.writes + 1))

\* list_expenses after its load.
list_loaded(ld, month, category, min_amount, max_amount, sort_by, descending, limit) ==
    IF ~ld.ok THEN Leaves(ld.file, Outcome("list", "Exception", <<>>, ld.loads, ld.writes))
    ELSE Leaves(ld.file,
                Outcome("list", "list",
                        list_of(ld.expenses, month, category, min_amount, max_amount,
                                sort_by, descending, limit),
                        ld.loads, ld.writes))

\* ExpenseService.list_expenses
list_expenses(f, month, category, min_amount, max_amount, sort_by, descending, limit, now) ==
    list_loaded(load_expenses(f, now), month, category, min_amount, max_amount,
                sort_by, descending, limit)

\* sum(...) and the += of the totals: left to right from the start value.
RECURSIVE SumFrom(_, _)
SumFrom(acc, amounts) ==
    IF amounts = <<>> THEN acc
    ELSE SumFrom(FloatAdd(acc, Head(amounts)), Tail(amounts))

Amounts(expenses) == [i \in 1..Len(expenses) |-> expenses[i].amount]

\* The totals dictionary after one more expense: a new category enters at
\* 0, then the amount is added to its entry.
totals_step(totals, expense) ==
    IF expense.category \in DOMAIN totals
    THEN [totals EXCEPT ![expense.category] = FloatAdd(@, expense.amount)]
    ELSE totals @@ (expense.category :> FloatAdd(F(0), expense.amount))

RECURSIVE totals_loop(_, _)
totals_loop(totals, expenses) ==
    IF expenses = <<>> THEN totals
    ELSE totals_loop(totals_step(totals, Head(expenses)), Tail(expenses))

\* ExpenseService._calculate_summary
calculate_summary(expenses) ==
    [count |-> Len(expenses),
     grand_total |-> SumFrom(F(0), Amounts(expenses)),
     totals_by_category |-> totals_loop(<<>>, expenses)]

\* summary after its load.
summary_loaded(ld, month, from_date, to_date, category) ==
    IF ~ld.ok THEN Leaves(ld.file, Outcome("summary", "Exception", <<>>, ld.loads, ld.writes))
    ELSE Leaves(ld.file,
                Outcome("summary", "dict",
                        <<calculate_summary(apply_filters(ld.expenses, month, from_date,
                                                          to_date, category,
                                                          NoneAmount, NoneAmount))>>,
                        ld.loads, ld.writes))

\* ExpenseService.summary
summary(f, month, from_date, to_date, category, now) ==
    summary_loaded(load_expenses(f, now), month, from_date, to_date, category)

\* ------------------------------------------------------------ the store machine

\* The expense list the store file holds.
Stored == file.expenses

StoredIds == {Stored[i].id : i \in 1..Len(Stored)}

\* The ids the delete and edit commands are given: every id an add of the
\* model can generate, and one that none does.
IdInputs ==
    {generate_id(r.date, now) : r \in ValidAdds, now \in Nows} \cup {MissingId}

\* A call is one step: the file and the outcome become what the call leaves.
Does(step) ==
    /\ file' = step.file
    /\ last' = step.last

Init ==
    /\ file \in {AbsentFile, write_data(VERSION, <<>>), LegacyFile(<<>>)}
    /\ last = Outcome("none", "None", <<>>, 0, 0)

AddExpense ==
    /\ Len(Stored) < MaxStore
    /\ \E r \in AddRequests, now \in Nows :
           Does(add_expense(file, r.date, r.category, r.amount, r.note, r.currency, now))

DeleteExpense ==
    \E expense_id \in IdInputs, now \in LoadNows :
        Does(service_delete_expense(file, expense_id, now))

UpdateExpense ==
    \E expense_id \in IdInputs, r \in EditRequests, now \in LoadNows :
        Does(update_expense(file, expense_id, r.amount, r.note, r.category, r.date, now))

Next == AddExpense \/ DeleteExpense \/ UpdateExpense

Spec == Init /\ [][Next]_vars

\* ------------------------------------------------------------ the query machine

\* Expenses the add command constructs: two alike but for the second of
\* their creation, one of another month, category and amount, one NaN.
QueryPool ==
    {Expense(AddFood.date, AddFood.category, AddFood.amount, AddFood.note,
             AddFood.currency, None, Morning).value,
     Expense(AddFood.date, AddFood.category, AddFood.amount, AddFood.note,
             AddFood.currency, None, Night).value,
     Expense(AddTransport.date, AddTransport.category, AddTransport.amount,
             AddTransport.note, AddTransport.currency, None, Morning).value,
     Expense(AddNaN.date, AddNaN.category, AddNaN.amount, AddNaN.note,
             AddNaN.currency, None, Morning).value}

\* The lists of at most n distinct members of S.
RECURSIVE ListsOf(_, _)
ListsOf(S, n) ==
    IF n = 0 THEN {<<>>}
    ELSE LET shorter == ListsOf(S, n - 1)
         IN  shorter \cup
             UNION {{Append(l, x) : x \in S \ {l[i] : i \in 1..Len(l)}} :
                    l \in {m \in shorter : Len(m) = n - 1}}

\* The store after a run of adds: every list of distinct pool expenses.
QueryInit ==
    /\ file \in {write_expenses(l) : l \in ListsOf(QueryPool, MaxList)}
    /\ last = Outcome("none", "None", <<>>, 0, 0)

ListExpenses ==
    \E month \in Months, category \in FilterCategories, min_amount \in Mins,
       max_amount \in Maxs, sort_by \in SortFields, descending \in BOOLEAN,
       limit \in Limits, now \in LoadNows :
        Does(list_expenses(file, month, category, min_amount, max_amount,
                           sort_by, descending, limit, now))

QueryNext == ListExpenses

SpecQuery == QueryInit /\ [][QueryNext]_vars

\* ------------------------------------------------------------ the summary machine

\* The expenses the summaries are taken over: the pool of the lists, and an
\* expense of 2^53.
SummaryPool ==
    QueryPool \cup
    {Expense(AddBig.date, AddBig.category, AddBig.amount, AddBig.note,
             AddBig.currency, None, Morning).value}

FromDates == {None, D2}

ToDates == {None, D1}

SummaryInit ==
    /\ file \in {write_expenses(l) : l \in ListsOf(SummaryPool, MaxList)}
    /\ last = Outcome("none", "None", <<>>, 0, 0)

Summary ==
    \E month \in Months, from_date \in FromDates, to_date \in ToDates,
       category \in FilterCategories, now \in LoadNows :
        Does(summary(file, month, from_date, to_date, category, now))

SummaryNext == Summary

SpecSummary == SummaryInit /\ [][SummaryNext]_vars

\* ------------------------------------------------------------ the reading machine

\* Adds and deletes interleaved with lists and summaries of the store.
ListStored ==
    \E category \in {None, <<"t">>}, sort_by \in {"None", "amount"}, now \in LoadNows :
        Does(list_expenses(file, None, category, NoneAmount, NoneAmount,
                           sort_by, FALSE, <<>>, now))

SummaryStored ==
    \E category \in {None, <<"t">>}, now \in LoadNows :
        Does(summary(file, None, None, None, category, now))

ReadNext == AddExpense \/ DeleteExpense \/ ListStored \/ SummaryStored

SpecRead == Init /\ [][ReadNext]_vars

\* ------------------------------------------------------------ the writing machine

\* _write_data step by step.  While the file is open for writing,
\* last.value = <<the document being dumped, the file before the open>>.
Writing == last.op = "write" /\ last.result = "writing"

\* save_all_expenses(l), which is also how save_expense, delete_expense and
\* update_expense end: open(filepath, 'w') empties the file.
OpenForWrite ==
    /\ ~Writing
    /\ \E l \in ListsOf(QueryPool, MaxStore) :
           /\ file' = PartialFile(<<>>)
           /\ last' = Outcome("write", "writing", <<ToDicts(l), file>>, 0, 0)

\* json.dump hands the next part of the document to the file.
WriteChunk ==
    /\ Writing
    /\ Len(file.expenses) < Len(last.value[1])
    /\ file' = PartialFile(Append(file.expenses, last.value[1][Len(file.expenses) + 1]))
    /\ UNCHANGED last

\* The dump is complete and the with block closes the file.
CloseWrite ==
    /\ Writing
    /\ Len(file.expenses) = Len(last.value[1])
    /\ file' = write_data(VERSION, last.value[1])
    /\ last' = Outcome("write", "None", <<last.value[1], last.value[2]>>, 0, 1)

\* A write or the flush raises (no space left, an I/O error, an interrupt):
\* the exception leaves _write_data with the file as it is.
WriteFails ==
    /\ Writing
    /\ file' = file
    /\ last' = Outcome("write", "Exception", <<last.value[1], last.value[2]>>, 0, 0)

\* A later load_expenses.
LoadAll ==
    /\ ~Writing
    /\ \E now \in LoadNows :
           /\ file' = load_expenses(file, now).file
           /\ last' = Outcome("load",
                              IF load_expenses(file, now).ok THEN "list" ELSE "Exception",
                              load_expenses(file, now).expenses,
                              1, load_expenses(file, now).writes)

WriteInit ==
    /\ file \in {write_expenses(l) : l \in ListsOf(QueryPool, MaxStore)}
    /\ last = Outcome("none", "None", <<>>, 0, 0)

WriteNext == OpenForWrite \/ WriteChunk \/ CloseWrite \/ WriteFails \/ LoadAll

SpecWrite == WriteInit /\ [][WriteNext]_vars

\* ------------------------------------------------------------ the legacy machine

\* The store machine started on a file of the old format, a bare array.
LegacyInit ==
    /\ file \in {LegacyFile(ToDicts(l)) : l \in ListsOf(QueryPool, MaxStore)}
    /\ last = Outcome("none", "None", <<>>, 0, 0)

LegacyNext == AddExpense \/ DeleteExpense \/ UpdateExpense

SpecLegacy == LegacyInit /\ [][LegacyNext]_vars

\* ------------------------------------------------------------ claims

\* C1: no two expenses held in the store have the same id.
C1_UniqueIds ==
    \A i, j \in 1..Len(Stored) : i # j => Stored[i].id # Stored[j].id

\* C2: every expense in the store has amount > 0, a category that is
\* non-empty and equal to its own trimmed lowercase form, and a date that
\* parses as a real calendar date.
C2_StoredValid ==
    \A i \in 1..Len(Stored) :
        /\ FloatGt(Stored[i].amount, F(0))
        /\ Stored[i].category # Empty
        /\ Stored[i].category = Lower(Strip(Stored[i].category))
        /\ StrptimeOk(Stored[i].date)

\* What the claims call an invalid field.
BadAmount(a) == ~ToFloat(a).ok \/ FloatLe(ToFloat(a).value, F(0))

BadCategory(c) == c = None \/ Strip(c) = Empty

BadDate(d) == ~StrptimeOk(d)

InvalidAdd(r) == BadDate(r.date) \/ BadCategory(r.category) \/ BadAmount(r.amount)

\* An edit whose merged record is invalid: a field that is supplied (truthy,
\* so that it replaces the stored one) and invalid.
InvalidEdit(r) ==
    \/ AmountTruthy(r.amount) /\ BadAmount(r.amount)
    \/ Truthy(r.category) /\ BadCategory(r.category)
    \/ Truthy(r.date) /\ BadDate(r.date)

Rejected(f, st) == st.last.result = "ValueError" /\ st.file = f

\* C3: an add with an invalid date, category or amount, and an edit of an
\* existing id whose merged record is invalid, raise the validation error
\* and leave the store file, hence the stored list, exactly as it was.
C3_ValidationAtomic ==
    /\ \A r \in AddRequests, now \in Nows :
           InvalidAdd(r) =>
               Rejected(file, add_expense(file, r.date, r.category, r.amount, r.note,
                                          r.currency, now))
    /\ \A expense_id \in StoredIds, r \in EditRequests, now \in LoadNows :
           InvalidEdit(r) =>
               Rejected(file, update_expense(file, expense_id, r.amount, r.note,
                                             r.category, r.date, now))

\* An edit of an existing expense has just been rejected.
C3_Witness == last.op = "update" /\ last.result = "ValueError" /\ Len(Stored) > 0

Appended(f, r, st) ==
    st.last.result = "Expense" =>
        /\ Len(st.file.expenses) = Len(f.expenses) + 1
        /\ SubSeq(st.file.expenses, 1, Len(f.expenses)) = f.expenses
        /\ Len(st.last.value) = 1
        /\ st.file.expenses[Len(st.file.expenses)].id = st.last.value[1].id
        /\ st.file.expenses[Len(st.file.expenses)].category = st.last.value[1].category
        /\ st.file.expenses[Len(st.file.expenses)].amount = st.last.value[1].amount
        /\ st.last.value[1].category = Lower(Strip(r.category))
        /\ st.last.value[1].amount = ToFloat(r.amount).value

\* C4: a successful add on a store holding L leaves it holding L followed by
\* one new entry, and returns an entity with the id, the trimmed lowercase
\* category and the amount of that entry.
C4_AddAppends ==
    \A r \in AddRequests, now \in Nows :
        Appended(file, r, add_expense(file, r.date, r.category, r.amount, r.note,
                                      r.currency, now))

\* An add has just succeeded on a store that held an expense already.
C4_Witness == last.op = "add" /\ last.result = "Expense" /\ Len(Stored) >= 2

\* The list without its element at i.
Without(l, i) == SubSeq(l, 1, i - 1) \o SubSeq(l, i + 1, Len(l))

RemovedOne(f, expense_id, st) ==
    /\ st.last.result = "True"
    /\ Len(st.file.expenses) = Len(f.expenses) - 1
    /\ \E i \in 1..Len(f.expenses) :
           f.expenses[i].id = expense_id /\ st.file.expenses = Without(f.expenses, i)

\* C5: delete with an id present in the store returns true and removes
\* exactly one entry, the others surviving unchanged and in order.
C5_DeleteRemovesOne ==
    \A expense_id \in StoredIds, now \in LoadNows :
        RemovedOne(file, expense_id, service_delete_expense(file, expense_id, now))

\* Returned false, raised nothing, and left the stored list as it was; a
\* file that existed is not written (an absent one is created empty by the
\* load, which is no rewrite of the list).
Untouched(f, st) ==
    /\ st.last.result = "False"
    /\ st.file.expenses = f.expenses
    /\ f.shape # "absent" => (st.file = f /\ st.last.writes = 0)

\* C6: delete and update with an id that is not in the store return false,
\* raise no error, perform no rewrite and leave the stored list unchanged.
C6_NotFoundChangesNothing ==
    \A expense_id \in IdInputs \ StoredIds, now \in LoadNows :
        /\ Untouched(file, service_delete_expense(file, expense_id, now))
        /\ \A r \in EditRequests :
               Untouched(file, update_expense(file, expense_id, r.amount, r.note,
                                              r.category, r.date, now))

\* A delete or an update has just missed, on a store that holds expenses.
C6_Witness == last.op \in {"delete", "update"} /\ last.result = "False" /\ Len(Stored) > 0

NoteChanged(f, expense_id, n, st) ==
    /\ st.last.result = "True"
    /\ Len(st.file.expenses) = Len(f.expenses)
    /\ \A j \in 1..Len(f.expenses) :
           st.file.expenses[j] =
               IF j = FirstIndex(f.expenses, expense_id)
               THEN [f.expenses[j] EXCEPT !.note = n]
               ELSE f.expenses[j]

\* C7: an update of an existing id that supplies the note alone returns
\* true and changes only the note of the first entry with that id: its id,
\* date, category, amount, currency and position, and every other entry,
\* are as before.
C7_NoteOnlyEdit ==
    \A expense_id \in StoredIds, n \in {Empty, NoteN}, now \in LoadNows :
        NoteChanged(file, expense_id, n,
                    update_expense(file, expense_id, NoneAmount, n, None, None, now))

\* An update has just succeeded and left the note n on an expense added
\* without one, beside another expense.
C7_Witness ==
    /\ last.op = "update" /\ last.result = "True" /\ Len(Stored) >= 2
    /\ \E i \in 1..Len(Stored) :
           /\ Stored[i].note = NoteN /\ Stored[i].currency = BDT
           /\ Stored[i].date = D1

\* What the claims call the matches of the supplied filters: a filter left
\* out (None) excludes nothing, a supplied one selects as its rule says.
Matches(e, month, category, min_amount, max_amount) ==
    /\ month # None => StartsWith(e.date, month)
    /\ category # None => Lower(e.category) = Lower(category)
    /\ min_amount # NoneAmount => FloatLe(min_amount, e.amount)
    /\ max_amount # NoneAmount => FloatLe(e.amount, max_amount)

Selected(expenses, month, category, min_amount, max_amount) ==
    SelectSeq(expenses, LAMBDA e : Matches(e, month, category, min_amount, max_amount))

\* C8: a list call without sort or limit returns exactly the stored
\* expenses that satisfy every supplied filter, in stored order; a filter
\* that is left out excludes nothing.
C8_FiltersIntersect ==
    \A month \in Months, category \in FilterCategories, min_amount \in Mins,
       max_amount \in Maxs, now \in LoadNows :
        list_expenses(file, month, category, min_amount, max_amount,
                      "None", FALSE, <<>>, now).last.value
            = Selected(Stored, month, category, min_amount, max_amount)

\* out holds the elements of inp, each as often as inp does.
IsPermutation(out, inp) ==
    /\ Len(out) = Len(inp)
    /\ \A x \in {inp[i] : i \in 1..Len(inp)} \cup {out[i] : i \in 1..Len(out)} :
           Cardinality({i \in 1..Len(out) : out[i] = x})
               = Cardinality({i \in 1..Len(inp) : inp[i] = x})

\* No later element of out belongs strictly before an earlier one.
Ordered(out, sort_by, descending) ==
    \A i, j \in 1..Len(out) :
        i < j => IF descending THEN ~KeyLess(sort_by, out[i], out[j])
                 ELSE ~KeyLess(sort_by, out[j], out[i])

\* key(a) == key(b): neither is less, and neither is a NaN, which equals
\* nothing.
KeyEqual(sort_by, a, b) ==
    /\ ~KeyLess(sort_by, a, b)
    /\ ~KeyLess(sort_by, b, a)
    /\ sort_by = "amount" => (a.amount # NaN /\ b.amount # NaN)

PositionIn(inp, x) == CHOOSE i \in 1..Len(inp) : inp[i] = x

\* Elements with equal keys stand in out in the order they have in inp.
Stable(out, inp, sort_by) ==
    \A i, j \in 1..Len(out) :
        (i < j /\ KeyEqual(sort_by, out[i], out[j]))
            => PositionIn(inp, out[i]) < PositionIn(inp, out[j])

SortedStable(out, inp, sort_by, descending) ==
    /\ IsPermutation(out, inp)
    /\ Ordered(out, sort_by, descending)
    /\ Stable(out, inp, sort_by)

\* C9: a list call sorted by date, amount or category returns a
\* permutation of the stored expenses, ordered by that key in the chosen
\* direction, with equal keys in their stored order, ascending and
\* descending alike.
C9_SortOrderedStable ==
    \A sort_by \in sort_keys, descending \in BOOLEAN, now \in LoadNows :
        SortedStable(list_expenses(file, None, None, NoneAmount, NoneAmount,
                                   sort_by, descending, <<>>, now).last.value,
                     Stored, sort_by, descending)

Min(a, b) == IF a < b THEN a ELSE b

\* C10: a list call with limit N >= 0 returns the first min(N, k) of the k
\* expenses the same call returns without a limit; limit 0 returns none.
C10_LimitTruncates ==
    \A month \in Months, category \in FilterCategories, min_amount \in Mins,
       max_amount \in Maxs, sort_by \in SortFields, descending \in BOOLEAN,
       limit \in Limits \ {<<>>}, now \in LoadNows :
        list_expenses(file, month, category, min_amount, max_amount,
                      sort_by, descending, limit, now).last.value
            = SubSeq(list_expenses(file, month, category, min_amount, max_amount,
                                   sort_by, descending, <<>>, now).last.value,
                     1,
                     Min(limit[1],
                         Len(list_expenses(file, month, category, min_amount, max_amount,
                                           sort_by, descending, <<>>, now).last.value)))

\* The sum of two amounts as numbers, with no rounding.
ExactAdd(a, b) ==
    IF a.k = "nan" \/ b.k = "nan" THEN NaN ELSE Carried(a.hi + b.hi, a.v + b.v)

RECURSIVE ExactSum(_)
ExactSum(amounts) ==
    IF amounts = <<>> THEN F(0) ELSE ExactAdd(Head(amounts), ExactSum(Tail(amounts)))

\* The sum of the values of a mapping.
RECURSIVE ExactSumOver(_, _)
ExactSumOver(f, S) ==
    IF S = {} THEN F(0)
    ELSE ExactAdd(f[CHOOSE c \in S : TRUE],
                  ExactSumOver(f, S \ {CHOOSE c \in S : TRUE}))

OfCategory(expenses, c) == SelectSeq(expenses, LAMBDA e : e.category = c)

SummaryOf(filtered, r) ==
    /\ r.count = Len(filtered)
    /\ r.grand_total = ExactSum(Amounts(filtered))
    /\ DOMAIN r.totals_by_category = {filtered[i].category : i \in 1..Len(filtered)}
    /\ \A c \in DOMAIN r.totals_by_category :
           r.totals_by_category[c] = ExactSum(Amounts(OfCategory(filtered, c)))
    /\ ExactSumOver(r.totals_by_category, DOMAIN r.totals_by_category) = r.grand_total
    /\ filtered = <<>> =>
           (r.count = 0 /\ r.grand_total = F(0) /\ r.totals_by_category = <<>>)

\* C11: a summary over the filtered list F returns count = |F|, grand_total
\* = the sum of the amounts of F, and one total per category present in F,
\* each the sum of that category's amounts, so that the totals sum to
\* grand_total; an empty F gives 0, 0 and the empty mapping.
C11_SummaryTotals ==
    \A month \in Months, from_date \in FromDates, to_date \in ToDates,
       category \in FilterCategories, now \in LoadNows :
        SummaryOf(apply_filters(Stored, month, from_date, to_date, category,
                                NoneAmount, NoneAmount),
                  summary(file, month, from_date, to_date, category, now).last.value[1])

\* A read left the stored list as it was and, repeated on the file it
\* left, returned the same result.
ReadOnlyAndRepeatable(f, st, again) ==
    /\ st.file.expenses = f.expenses
    /\ f.shape # "absent" => st.file = f
    /\ again.last.result = st.last.result
    /\ again.last.value = st.last.value

\* The list of the whole store after a mutation.
ListAfter(st, now) ==
    list_expenses(st.file, None, None, NoneAmount, NoneAmount, "None", FALSE, <<>>,
                  now).last.value

AddShows(f, st, now) ==
    st.last.result = "Expense" => ListAfter(st, now) = f.expenses \o st.last.value

DeleteShows(expense_id, st, now) ==
    /\ st.last.result = "True"
    /\ \A i \in 1..Len(ListAfter(st, now)) : ListAfter(st, now)[i].id # expense_id

C13_WriteAllOrNothing ==
    /\ (last.op = "write" /\ last.result = "Exception") => file = last.value[2]
    /\ ~Writing => file.shape # "partial"

\* C14: no call reads the whole store file more than once or writes it
\* more than once.
C14_OneLoadOneWrite == last.loads <= 1 /\ last.writes <= 1

\* The constructed expense comes back from its dictionary, whenever that
\* is read.
RoundTrips(x, later) ==
    x.ok => from_dict(to_dict(x.value), later) = [ok |-> TRUE, error |-> "", value |-> x.value]

Reloaded(expenses, ld) == ld.ok /\ ld.expenses = expenses

\* C15: from_dict(to_dict(e)) equals e in every field for every expense the
\* constructor accepts, and a load after a write of the list L returns L,
\* with no id regenerated and no category changed.
C15_RoundTrip ==
    /\ \A r \in AddRequests, now \in Nows, later \in Nows :
           RoundTrips(Expense(r.date, r.category, r.amount, r.note, r.currency, None, now),
                      later)
    /\ \A now \in Nows : Reloaded(Stored, load_expenses(write_expenses(Stored), now))

\* A list has just loaded an expense whose category was given as " T " and
\* whose id was generated in the morning.
C15_Witness ==
    /\ last.op = "list" /\ last.result = "list"
    /\ \E i \in 1..Len(last.value) :
           /\ last.value[i].category = <<"t">>
           /\ last.value[i].id = generate_id(D2, Morning)

\* The fields an edit supplies, beside an amount of 0.
ZeroAmountEdits ==
    {EditReq(F(0), note, category, date) :
        note \in {None, NoteN}, category \in {None, <<"F", "O">>}, date \in {None, D1}}

AmountKept(f, expense_id, r, st) ==
    /\ st.last.result = "True"
    /\ Len(st.file.expenses) = Len(f.expenses)
    /\ \A j \in 1..Len(f.expenses) :
           st.file.expenses[j] =
               IF j = FirstIndex(f.expenses, expense_id)
               THEN [f.expenses[j] EXCEPT
                        !.note = IF r.note # None THEN r.note ELSE @,
                        !.category = IF r.category # None THEN Lower(Strip(r.category)) ELSE @,
                        !.date = IF r.date # None THEN r.date ELSE @]
               ELSE f.expenses[j]

\* C16: an update of an existing id with amount 0 returns true, raises
\* nothing and keeps the stored amount, while the note, category and date
\* it supplies are applied.
C16_ZeroAmountIsAbsent ==
    \A expense_id \in StoredIds, r \in ZeroAmountEdits, now \in LoadNows :
        AmountKept(file, expense_id, r,
                   update_expense(file, expense_id, r.amount, r.note, r.category, r.date,
                                  now))

\* An update has just succeeded with two loads and one write, leaving the
\* note n on an expense whose amount is still the 1 it was added with.
C16_Witness ==
    /\ last.op = "update" /\ last.result = "True" /\ last.loads = 2 /\ last.writes = 1
    /\ \E i \in 1..Len(Stored) : Stored[i].note = NoteN /\ Stored[i].amount = F(1)

\* C17: the date segment of every stored id is the expense's date without
\* its hyphens.
C17_IdCarriesDate ==
    \A i \in 1..Len(Stored) :
        SubSeq(Stored[i].id, 5, Len(Stored[i].id) - 7) = Remove(Stored[i].date, "-")

SameLoad(a, b) == a.ok = b.ok /\ a.expenses = b.expenses

Versioned(st) ==
    st.last.result \in {"Expense", "True"} =>
        (st.file.shape = "object" /\ st.file.version = 1)

\* C18: a bare array loads as the versioned document of the same array
\* does; a successful add, delete or update leaves the file versioned with
\* version 1 whatever it was; an absent file is created as version 1 with
\* an empty list by the first load.
C18_LegacyAndVersioned ==
    /\ \A now \in LoadNows :
           /\ SameLoad(load_expenses(LegacyFile(Stored), now),
                       load_expenses(write_data(1, Stored), now))
           /\ load_expenses(AbsentFile, now).file = write_data(1, <<>>)
           /\ load_expenses(AbsentFile, now).expenses = <<>>
    /\ \A r \in ValidAdds, now \in Nows :
           Versioned(add_expense(file, r.date, r.category, r.amount, r.note, r.currency,
                                 now))
    /\ \A expense_id \in StoredIds, now \in LoadNows :
           /\ Versioned(service_delete_expense(file, expense_id, now))
           /\ \A r \in ValidEdits :
                  Versioned(update_expense(file, expense_id, r.amount, r.note, r.category,
                                           r.date, now))

\* A delete has just removed an expense from a store that was a bare
\* array, and the file is versioned.
C18_Witness ==
    /\ last.op = "delete" /\ last.result = "True"
    /\ file.shape = "object" /\ file.version = 1 /\ Len(Stored) >= 1

====
